---- MODULE Spec2Model ----
(***************************************************************************)
(* A model of async_queue/queues.py: QueueBase with its two subclasses     *)
(* AsyncQueue (FIFO) and AsyncLifoQueue (LIFO), used by NumTasks asyncio    *)
(* tasks on one event loop.                                                *)
(*                                                                         *)
(* Scheduling is cooperative.  One action of the model is the code a task  *)
(* runs between two suspension points (await asyncio.sleep(0)), or between *)
(* a call and the first suspension point, or up to the return/raise.       *)
(* `await self._check_expiry_date(...)` never suspends (the coroutine holds *)
(* no await), so a task polling with a timeout keeps the event loop: the   *)
(* variable `running` names that task and no other task steps meanwhile;   *)
(* only the wall clock moves.                                              *)
(*                                                                         *)
(* dispatch_event(event) schedules _dispatch_event on the loop; a step     *)
(* records how many times it called dispatch_event for Full and for Empty, *)
(* and `ready` holds the _dispatch_event tasks created and not yet run.    *)
(* wait_for(event, timeout) creates a future, appends it to the listeners  *)
(* of the event and awaits it through asyncio.wait_for.                    *)
(* Items are numbered 1, 2, ... in the order they are handed to the queue  *)
(* (the constructor's iterable first), so every item is distinct.          *)
(***************************************************************************)
EXTENDS Integers, Sequences, FiniteSets, TLC

\* ------------------------------------------------------------------ bounds
NumTasks == 2
MaxItems == 3
MaxInit == 1
MaxCap == 2
MaxBatch == 2
MaxAtLeast == 2
MaxAtMost == 3
MaxTimeout == 0
MaxFutures == 2
MaxReady == 1

\* Python's None (maxlen=None, timeout=None, atmost=None).  __init__ turns
\* every negative maxlen into None, so a negative number stands for it.
None == -1

Tasks == 1..NumTasks

VARIABLES
    maxlen,     \* self.maxlen: None or a capacity >= 0
    fifo,       \* TRUE: AsyncQueue (popleft), FALSE: AsyncLifoQueue (pop)
    deque,      \* self._deque, left to right
    pc,         \* per task: "idle" or the await it is suspended at
    frame,      \* per task: the locals of the call in progress
    running,    \* the tasks (none or one) holding the event loop in a non-yielding loop
    nextItem,   \* the next fresh item (items are numbered as they are passed in)
    inserted,   \* history: the items appended to the deque, in order
    removed,    \* history: the items popped off the deque, in order
    interleaved,\* history: an item was appended after an item had been popped
    last,       \* history: what the latest step of a task did
    listeners,  \* self._listeners: per event, the futures appended by wait_for
    futures,    \* the futures created by wait_for, by number: their state
    ready       \* the _dispatch_event tasks created and not yet run, oldest first

vars == <<maxlen, fifo, deque, pc, frame, running, nextItem, inserted, removed,
          interleaved, last, listeners, futures, ready>>

\* ------------------------------------------------------------ sequences
Min(a, b) == IF a <= b THEN a ELSE b

Take(s, n) == SubSeq(s, 1, Min(n, Len(s)))

Drop(s, n) == SubSeq(s, Min(n, Len(s)) + 1, Len(s))

Range(s) == {s[i] : i \in DOMAIN s}

Fresh(first, n) == [i \in 1..n |-> first + i - 1]

\* --------------------------------------------------------------- the deque
\* collections.deque(maxlen=m).extend(xs) / .append(x): items are appended on
\* the right; a bounded deque that is full drops items off the left end.
DequeExtend(d, xs, m) ==
    LET all == d \o xs
    IN  IF m = None \/ Len(all) <= m THEN all
        ELSE SubSeq(all, Len(all) - m + 1, Len(all))

is_empty(d) == Len(d) = 0

\* (a variant: `>` for `>=`)
is_full_gt(d, m) == IF m = None THEN FALSE ELSE Len(d) > m

is_full(d, m) == IF m = None THEN FALSE ELSE Len(d) >= m

has_enough_room_for(d, m, n) == IF m = None THEN TRUE ELSE n <= m - Len(d)

\* AsyncQueue._get is popleft, AsyncLifoQueue._get is pop; d is not empty.
\* (a variant: both classes pop on the left)
get_left(d, f) == [item |-> Head(d), rest |-> Tail(d)]

get_(d, f) ==
    IF f THEN [item |-> Head(d), rest |-> Tail(d)]
         ELSE [item |-> d[Len(d)], rest |-> SubSeq(d, 1, Len(d) - 1)]

\* `while self._deque and len(out) < n: out.append(self._get())`, from out = <<>>
RECURSIVE Drain(_, _, _)
Drain(d, n, f) ==
    IF is_empty(d) \/ n <= 0 THEN [got |-> <<>>, rest |-> d]
    ELSE LET g == get_(d, f)
             r == Drain(g.rest, n - 1, f)
         IN  [got |-> <<g.item>> \o r.got, rest |-> r.rest]

\* _check_expiry_date, lines 37-40: raises when now - started_at > timeout.
\* A frame keeps `elapsed`, the time now - started_at since the call began.
Expired(elapsed, timeout) == elapsed > timeout

\* -------------------------------------------------------------- the events
\* Events.Full and Events.Empty, the two members of Events the queue uses
Events == {"Full", "Empty"}

\* _dispatch_event, lines 312-313: `for future in self._listeners[event]:
\* future.set_result(None)` over the list ws.  Future.set_result raises
\* InvalidStateError on a future that is not pending (already done, or
\* cancelled by asyncio.wait_for at its timeout): the loop ends there.
RECURSIVE set_results(_, _)
set_results(ws, futs) ==
    IF ws = <<>> THEN [futures |-> futs, raised |-> FALSE]
    ELSE IF futs[Head(ws)] # "pending" THEN [futures |-> futs, raised |-> TRUE]
    ELSE set_results(Tail(ws), [futs EXCEPT ![Head(ws)] = "done"])

\* _dispatch_event, lines 308-315: line 315 clears the list unless line 313 raised
dispatch_event_(event, ls, futs) ==
    LET r == set_results(ls[event], futs)
    IN  [futures |-> r.futures,
         listeners |-> IF r.raised THEN ls ELSE [ls EXCEPT ![event] = <<>>],
         outcome |-> IF r.raised THEN "InvalidStateError" ELSE "returned"]

\* wait_for, lines 321-323: a new future, appended to the listeners of event
wait_for(event, ls, futs) ==
    LET future == Len(futs) + 1
    IN  [future |-> future,
         futures |-> Append(futs, "pending"),
         listeners |-> [ls EXCEPT ![event] = Append(@, future)]]

\* ------------------------------------------------------------------ frames
\* The locals of a call: the items still to append (put, put_nowait, puts),
\* timeout and the time elapsed since started_at, atleast / atmost / atomic
\* and out (gets), event and future (wait_for, _dispatch_event).  Four fields
\* are history: entry is the buffer at the call of a put or get with a
\* timeout, base the number of items popped off the queue before a gets call,
\* heard the list self._listeners[event] as a _dispatch_event task found it,
\* born the number of futures wait_for had created when dispatch_event
\* created that task.
NoFrame ==
    [op |-> "none", items |-> <<>>, timeout |-> None, elapsed |-> 0,
     atleast |-> 0, atmost |-> 0, atomic |-> FALSE, out |-> <<>>,
     entry |-> <<>>, base |-> 0, event |-> "none", future |-> 0, heard |-> <<>>,
     born |-> 0]

\* What one run of a task, from where it stood to its next suspension point
\* or its end, does: the deque it leaves, where it stands, how it ended
\* ("returned", "suspended", "polling" or the exception raised), what it
\* returned, how many times it called dispatch_event(Events.Full) and
\* dispatch_event(Events.Empty), and the items it appended and popped.
Seg(d, p, fr, outcome, ret, nfull, nempty, ins, rem) ==
    [d |-> d, pc |-> p, fr |-> fr, outcome |-> outcome, ret |-> ret,
     nfull |-> nfull, nempty |-> nempty, ins |-> ins, rem |-> rem]

Full1(d, m) == IF is_full(d, m) THEN 1 ELSE 0

Empty1(d) == IF is_empty(d) THEN 1 ELSE 0

\* ------------------------------------------------------------- put family
\* (a variant: appendleft for append)
put_tail_left(d, fr, m) ==
    LET d2 == fr.items \o d
    IN  Seg(d2, "idle", fr, "returned", <<>>, Full1(d2, m), 0, fr.items, <<>>)

\* put, lines 59-62: append, then dispatch Full if the queue is now full
put_tail(d, fr, m) ==
    LET d2 == DequeExtend(d, fr.items, m)
    IN  Seg(d2, "idle", fr, "returned", <<>>, Full1(d2, m), 0, fr.items, <<>>)

\* (a variant: the deadline is checked after the append)
put_loop_late(d, fr, m) ==
    IF fr.timeout # None /\ Expired(fr.elapsed, fr.timeout)
    THEN Seg(DequeExtend(d, fr.items, m), "idle", fr, "TimeoutError", <<>>,
             0, 0, fr.items, <<>>)
    ELSE IF m # None /\ is_full(d, m)
    THEN IF fr.timeout = None
         THEN Seg(d, "put_sleep", fr, "suspended", <<>>, 0, 0, <<>>, <<>>)
         ELSE Seg(d, "put_check", fr, "polling", <<>>, 0, 0, <<>>, <<>>)
    ELSE put_tail(d, fr, m)

\* put, lines 52-62, from the head of `while self.is_full()`
put_loop(d, fr, m) ==
    IF m # None /\ is_full(d, m)
    THEN IF fr.timeout = None
         THEN Seg(d, "put_sleep", fr, "suspended", <<>>, 0, 0, <<>>, <<>>)
         ELSE IF Expired(fr.elapsed, fr.timeout)
              THEN Seg(d, "idle", fr, "TimeoutError", <<>>, 0, 0, <<>>, <<>>)
              ELSE Seg(d, "put_check", fr, "polling", <<>>, 0, 0, <<>>, <<>>)
    ELSE put_tail(d, fr, m)

\* (a variant: Full only past capacity)
put_nowait_gt(d, fr, m) ==
    IF m # None /\ Len(d) > m
    THEN Seg(d, "idle", fr, "Full", <<>>, 0, 0, <<>>, <<>>)
    ELSE put_tail(d, fr, m)

\* put_nowait, lines 69-75
put_nowait(d, fr, m) ==
    IF is_full(d, m)
    THEN Seg(d, "idle", fr, "Full", <<>>, 0, 0, <<>>, <<>>)
    ELSE put_tail(d, fr, m)

\* puts with maxlen None, lines 84-85
puts_unbounded(d, fr, m) ==
    Seg(DequeExtend(d, fr.items, m), "idle", fr, "returned", <<>>, 0, 0, fr.items, <<>>)

\* (a variant: what fits goes in at once, the rest waits)
puts_atomic_partial(d, fr, m) ==
    IF ~has_enough_room_for(d, m, Len(fr.items))
    THEN Seg(DequeExtend(d, Take(fr.items, m - Len(d)), m), "puts_atomic_sleep",
             [fr EXCEPT !.items = Drop(fr.items, m - Len(d))], "suspended", <<>>,
             0, 0, Take(fr.items, m - Len(d)), <<>>)
    ELSE LET d2 == DequeExtend(d, fr.items, m)
         IN  Seg(d2, "idle", fr, "returned", <<>>, Full1(d2, m), 0, fr.items, <<>>)

\* puts, atomic, lines 89-95, from the head of the while loop
puts_atomic(d, fr, m) ==
    IF ~has_enough_room_for(d, m, Len(fr.items))
    THEN Seg(d, "puts_atomic_sleep", fr, "suspended", <<>>, 0, 0, <<>>, <<>>)
    ELSE LET d2 == DequeExtend(d, fr.items, m)
         IN  Seg(d2, "idle", fr, "returned", <<>>, Full1(d2, m), 0, fr.items, <<>>)

\* (a variant: a pass appends all the items that remain)
puts_pass_all(d, fr, m) ==
    Seg(DequeExtend(d, fr.items, m), "idle", [fr EXCEPT !.items = <<>>],
        "returned", <<>>, 0, 0, fr.items, <<>>)

\* puts, not atomic, lines 99-112: one pass of `while True`
puts_pass(d, fr, m) ==
    LET free_slots == m - Len(d)
        now_in == Take(fr.items, free_slots)
        items == Drop(fr.items, free_slots)
        d2 == DequeExtend(d, now_in, m)
        fr2 == [fr EXCEPT !.items = items]
    IN  IF items = <<>>
        THEN Seg(d2, "idle", fr2, "returned", <<>>, 0, 0, now_in, <<>>)
        ELSE Seg(d2, "puts_sleep", fr2, "suspended", <<>>, Full1(d2, m), 0, now_in, <<>>)

\* puts, lines 84-112, from the call
puts(d, fr, m) ==
    IF m = None THEN puts_unbounded(d, fr, m)
    ELSE IF fr.atomic THEN puts_atomic(d, fr, m)
    ELSE puts_pass(d, fr, m)

\* ------------------------------------------------------------- get family
\* get, lines 136-139: dispatch Empty if one item is left, then pop it
get_tail(d, fr, f) ==
    LET g == get_(d, f)
    IN  Seg(g.rest, "idle", fr, "returned", <<g.item>>,
            0, IF Len(d) = 1 THEN 1 ELSE 0, <<>>, <<g.item>>)

\* get, lines 130-139, from the head of `while self.is_empty()`
get_loop(d, fr, f) ==
    IF is_empty(d)
    THEN IF fr.timeout = None
         THEN Seg(d, "get_sleep", fr, "suspended", <<>>, 0, 0, <<>>, <<>>)
         ELSE IF Expired(fr.elapsed, fr.timeout)
              THEN Seg(d, "idle", fr, "TimeoutError", <<>>, 0, 0, <<>>, <<>>)
              ELSE Seg(d, "get_check", fr, "polling", <<>>, 0, 0, <<>>, <<>>)
    ELSE get_tail(d, fr, f)

\* get_nowait, lines 209-215: _get on an empty deque raises IndexError
get_nowait(d, fr, f) ==
    IF Len(d) = 0
    THEN Seg(d, "idle", fr, "Empty", <<>>, 0, 0, <<>>, <<>>)
    ELSE get_tail(d, fr, f)

\* (a variant: the batch stops at atleast)
gets_atomic_least(d, fr, f) ==
    IF Len(d) < fr.atleast
    THEN Seg(d, "gets_atomic_sleep", fr, "suspended", <<>>, 0, 0, <<>>, <<>>)
    ELSE LET r == Drain(d, fr.atleast, f)
         IN  Seg(r.rest, "idle", [fr EXCEPT !.out = r.got], "returned", r.got,
                 0, Empty1(r.rest), <<>>, r.got)

\* gets, atomic, lines 170-178, from the head of the first while loop
gets_atomic(d, fr, f) ==
    IF Len(d) < fr.atleast
    THEN Seg(d, "gets_atomic_sleep", fr, "suspended", <<>>, 0, 0, <<>>, <<>>)
    ELSE LET r == Drain(d, fr.atmost, f)
         IN  Seg(r.rest, "idle", [fr EXCEPT !.out = r.got], "returned", r.got,
                 0, Empty1(r.rest), <<>>, r.got)

\* gets, not atomic, lines 182-190, from the head of `while len(out) < atleast`
gets_loop(d, fr, f) ==
    IF Len(fr.out) < fr.atleast
    THEN LET r == Drain(d, fr.atleast - Len(fr.out), f)
         IN  Seg(r.rest, "gets_sleep", [fr EXCEPT !.out = fr.out \o r.got],
                 "suspended", <<>>, 0, Empty1(r.rest), <<>>, r.got)
    ELSE Seg(d, "gets_topup", fr, "suspended", <<>>, 0, 0, <<>>, <<>>)

\* (a variant: `len(out) <= atmost`)
gets_topup_over(d, fr, f) ==
    LET r == Drain(d, fr.atmost - Len(fr.out) + 1, f)
        out == fr.out \o r.got
    IN  Seg(r.rest, "idle", [fr EXCEPT !.out = out], "returned", out,
            0, Empty1(r.rest), <<>>, r.got)

\* gets, not atomic, lines 195-202: the pass after the sleep of line 192
gets_topup(d, fr, f) ==
    LET r == Drain(d, fr.atmost - Len(fr.out), f)
        out == fr.out \o r.got
    IN  Seg(r.rest, "idle", [fr EXCEPT !.out = out], "returned", out,
            0, Empty1(r.rest), <<>>, r.got)

\* (a variant: the first check is `atleast < 0`)
gets_from_zero(d, fr, f) ==
    IF fr.atleast < 0
    THEN Seg(d, "idle", fr, "ValueError", <<>>, 0, 0, <<>>, <<>>)
    ELSE LET atmost == IF fr.atmost = None THEN fr.atleast ELSE fr.atmost
             fr2 == [fr EXCEPT !.atmost = atmost]
         IN  IF fr.atleast > atmost
             THEN Seg(d, "idle", fr, "ValueError", <<>>, 0, 0, <<>>, <<>>)
             ELSE IF fr.atleast = 1
             THEN get_loop(d, [fr2 EXCEPT !.timeout = None], f)
             ELSE IF fr.atomic THEN gets_atomic(d, fr2, f)
             ELSE gets_loop(d, fr2, f)

\* gets, lines 154-202, from the call; fr.atmost = None is atmost=None
gets(d, fr, f) ==
    IF fr.atleast < 1
    THEN Seg(d, "idle", fr, "ValueError", <<>>, 0, 0, <<>>, <<>>)
    ELSE LET atmost == IF fr.atmost = None THEN fr.atleast ELSE fr.atmost
             fr2 == [fr EXCEPT !.atmost = atmost]
         IN  IF fr.atleast > atmost
             THEN Seg(d, "idle", fr, "ValueError", <<>>, 0, 0, <<>>, <<>>)
             ELSE IF fr.atleast = 1
             THEN get_loop(d, [fr2 EXCEPT !.timeout = None], f)
             ELSE IF fr.atomic THEN gets_atomic(d, fr2, f)
             ELSE gets_loop(d, fr2, f)

\* ------------------------------------------------------------ the actions
Timeouts == {None} \cup (0..MaxTimeout)

\* dispatch_event, lines 304-306, called n times for one event: n tasks
\* running _dispatch_event(event) are created on the loop.  (born is history:
\* the futures numbered above it are created after this call.)
Created(event, n) == [i \in 1..n |-> [event |-> event, born |-> Len(futures)]]

\* Task t ran segment r of operation fr0.op, starting at `from` ("call" or
\* the await it resumed from) with the locals fr0.
Step(t, from, fr0, r) ==
    /\ deque' = r.d
    /\ pc' = [pc EXCEPT ![t] = r.pc]
    /\ frame' = [frame EXCEPT ![t] = IF r.pc = "idle" THEN NoFrame ELSE r.fr]
    /\ running' = IF r.outcome = "polling" THEN {t} ELSE {}
    /\ inserted' = inserted \o r.ins
    /\ removed' = removed \o r.rem
    /\ interleaved' = (interleaved \/ (r.ins # <<>> /\ removed # <<>>))
    /\ last' = [task |-> t, op |-> fr0.op, from |-> from, before |-> deque,
                fr |-> fr0, outcome |-> r.outcome, ret |-> r.ret,
                nfull |-> r.nfull, nempty |-> r.nempty, ins |-> r.ins, rem |-> r.rem]
    /\ Len(ready) + r.nfull + r.nempty <= MaxReady
    /\ ready' = ready \o Created("Full", r.nfull) \o Created("Empty", r.nempty)
    /\ UNCHANGED <<maxlen, fifo, listeners, futures>>

CanCall(t) == pc[t] = "idle" /\ running = {}

CanResume(t, label) == pc[t] = label /\ running \subseteq {t}

\* await queue.put(item, timeout), up to its first suspension point
Put(t) ==
    \E timeout \in Timeouts :
        /\ CanCall(t)
        /\ nextItem <= MaxItems
        /\ LET fr == [NoFrame EXCEPT !.op = "put", !.items = <<nextItem>>,
                          !.timeout = timeout,
                          !.entry = IF timeout = None THEN <<>> ELSE deque]
           IN  Step(t, "call", fr, put_loop(deque, fr, maxlen))
        /\ nextItem' = nextItem + 1

\* put resumes from `await asyncio.sleep(0)`, line 55
PutResume(t) ==
    /\ CanResume(t, "put_sleep")
    /\ Step(t, "put_sleep", frame[t], put_loop(deque, frame[t], maxlen))
    /\ UNCHANGED nextItem

\* put goes round `while self.is_full()` through line 57, without suspending
PutCheck(t) ==
    /\ CanResume(t, "put_check")
    /\ Step(t, "put_check", frame[t], put_loop(deque, frame[t], maxlen))
    /\ UNCHANGED nextItem

\* queue.put_nowait(item)
PutNowait(t) ==
    /\ CanCall(t)
    /\ nextItem <= MaxItems
    /\ LET fr == [NoFrame EXCEPT !.op = "put_nowait", !.items = <<nextItem>>]
       IN  Step(t, "call", fr, put_nowait(deque, fr, maxlen))
    /\ nextItem' = nextItem + 1

\* await queue.puts(*items, atomic=atomic), up to its first suspension point
Puts(t) ==
    \E n \in 0..MaxBatch, atomic \in BOOLEAN :
        /\ CanCall(t)
        /\ nextItem + n <= MaxItems + 1
        /\ LET fr == [NoFrame EXCEPT !.op = "puts", !.items = Fresh(nextItem, n),
                          !.atomic = atomic]
           IN  Step(t, "call", fr, puts(deque, fr, maxlen))
        /\ nextItem' = nextItem + n

\* atomic puts resumes from line 90
PutsAtomicResume(t) ==
    /\ CanResume(t, "puts_atomic_sleep")
    /\ Step(t, "puts_atomic_sleep", frame[t], puts_atomic(deque, frame[t], maxlen))
    /\ UNCHANGED nextItem

\* incremental puts resumes from line 112
PutsResume(t) ==
    /\ CanResume(t, "puts_sleep")
    /\ Step(t, "puts_sleep", frame[t], puts_pass(deque, frame[t], maxlen))
    /\ UNCHANGED nextItem

\* await queue.get(timeout), up to its first suspension point
Get(t) ==
    \E timeout \in Timeouts :
        /\ CanCall(t)
        /\ LET fr == [NoFrame EXCEPT !.op = "get", !.timeout = timeout,
                          !.entry = IF timeout = None THEN <<>> ELSE deque]
           IN  Step(t, "call", fr, get_loop(deque, fr, fifo))
        /\ UNCHANGED nextItem

\* get (or gets with atleast = 1) resumes from line 132
GetResume(t) ==
    /\ CanResume(t, "get_sleep")
    /\ Step(t, "get_sleep", frame[t], get_loop(deque, frame[t], fifo))
    /\ UNCHANGED nextItem

\* get goes round `while self.is_empty()` through line 134, without suspending
GetCheck(t) ==
    /\ CanResume(t, "get_check")
    /\ Step(t, "get_check", frame[t], get_loop(deque, frame[t], fifo))
    /\ UNCHANGED nextItem

\* queue.get_nowait()
GetNowait(t) ==
    /\ CanCall(t)
    /\ LET fr == [NoFrame EXCEPT !.op = "get_nowait"]
       IN  Step(t, "call", fr, get_nowait(deque, fr, fifo))
    /\ UNCHANGED nextItem

\* await queue.gets(atleast, atmost, atomic), up to its first suspension point
Gets(t) ==
    \E atleast \in 0..MaxAtLeast, atmost \in {None} \cup (1..MaxAtMost), atomic \in BOOLEAN :
        /\ CanCall(t)
        /\ LET fr == [NoFrame EXCEPT !.op = "gets", !.atleast = atleast,
                          !.atmost = atmost, !.atomic = atomic,
                          !.base = Len(removed)]
           IN  Step(t, "call", fr, gets(deque, fr, fifo))
        /\ UNCHANGED nextItem

\* atomic gets resumes from line 171
GetsAtomicResume(t) ==
    /\ CanResume(t, "gets_atomic_sleep")
    /\ Step(t, "gets_atomic_sleep", frame[t], gets_atomic(deque, frame[t], fifo))
    /\ UNCHANGED nextItem

\* incremental gets resumes from line 190
GetsResume(t) ==
    /\ CanResume(t, "gets_sleep")
    /\ Step(t, "gets_sleep", frame[t], gets_loop(deque, frame[t], fifo))
    /\ UNCHANGED nextItem

\* incremental gets resumes from line 192
GetsTopup(t) ==
    /\ CanResume(t, "gets_topup")
    /\ Step(t, "gets_topup", frame[t], gets_topup(deque, frame[t], fifo))
    /\ UNCHANGED nextItem

\* datetime.now() moves on.  Only a call with a timeout reads the clock, and
\* such a call never suspends: the time that counts is the time that passes
\* while task t goes round its loop, up to the first instant past its deadline.
Tick(t) ==
    /\ running = {t}
    /\ ~Expired(frame[t].elapsed, frame[t].timeout)
    /\ frame' = [frame EXCEPT ![t].elapsed = @ + 1]
    /\ UNCHANGED <<maxlen, fifo, deque, pc, running, nextItem, inserted, removed,
          interleaved, last, listeners, futures, ready>>

\* What a step of the event broker records as the latest step
Did(t, from, fr, outcome) ==
    [task |-> t, op |-> fr.op, from |-> from, before |-> deque, fr |-> fr,
     outcome |-> outcome, ret |-> <<>>, nfull |-> 0, nempty |-> 0,
     ins |-> <<>>, rem |-> <<>>]

\* await queue.wait_for(event, timeout): the future is created and listed,
\* and the task waits for it in asyncio.wait_for
WaitFor(t) ==
    \E event \in Events, timeout \in Timeouts :
        /\ CanCall(t)
        /\ Len(futures) < MaxFutures
        /\ LET w == wait_for(event, listeners, futures)
               fr == [NoFrame EXCEPT !.op = "wait_for", !.event = event,
                          !.timeout = timeout, !.future = w.future]
           IN  /\ listeners' = w.listeners
               /\ futures' = w.futures
               /\ pc' = [pc EXCEPT ![t] = "wait_for"]
               /\ frame' = [frame EXCEPT ![t] = fr]
               /\ last' = Did(t, "call", fr, "suspended")
        /\ UNCHANGED <<maxlen, fifo, deque, running, nextItem, inserted, removed,
              interleaved, ready>>

\* the future of task t has a result: asyncio.wait_for returns it
WaitForDone(t) ==
    /\ CanResume(t, "wait_for")
    /\ running = {}
    /\ futures[frame[t].future] = "done"
    /\ pc' = [pc EXCEPT ![t] = "idle"]
    /\ frame' = [frame EXCEPT ![t] = NoFrame]
    /\ last' = Did(t, "wait_for", frame[t], "returned")
    /\ UNCHANGED <<maxlen, fifo, deque, running, nextItem, inserted, removed,
          interleaved, listeners, futures, ready>>

\* the timeout of task t passes before its future has a result:
\* asyncio.wait_for cancels the future and raises TimeoutError.  Nothing in
\* wait_for (line 325) takes the future off self._listeners.
WaitForTimeout(t) ==
    /\ CanResume(t, "wait_for")
    /\ running = {}
    /\ frame[t].timeout # None
    /\ futures[frame[t].future] = "pending"
    /\ futures' = [futures EXCEPT ![frame[t].future] = "cancelled"]
    /\ pc' = [pc EXCEPT ![t] = "idle"]
    /\ frame' = [frame EXCEPT ![t] = NoFrame]
    /\ last' = Did(t, "wait_for", frame[t], "TimeoutError")
    /\ UNCHANGED <<maxlen, fifo, deque, running, nextItem, inserted, removed,
          interleaved, listeners, ready>>

\* The loop runs the oldest _dispatch_event task (created by line 306); the
\* coroutine holds no await, so it runs to its end in one step.
DispatchEvent ==
    /\ ready # <<>>
    /\ running = {}
    /\ LET event == Head(ready).event
           r == dispatch_event_(event, listeners, futures)
           fr == [NoFrame EXCEPT !.op = "_dispatch_event", !.event = event,
                      !.heard = listeners[event], !.born = Head(ready).born]
       IN  /\ listeners' = r.listeners
           /\ futures' = r.futures
           /\ last' = Did(NumTasks + 1, "call", fr, r.outcome)
    /\ ready' = Tail(ready)
    /\ UNCHANGED <<maxlen, fifo, deque, pc, frame, running, nextItem, inserted,
          removed, interleaved>>

\* ------------------------------------------------------- the specification
Capacities == {None} \cup (0..MaxCap)

\* QueueBase.__init__(iterable, maxlen=...): the iterable is items 1..n, and
\* the construction is recorded as the latest step (of no task).
Init ==
    \E m \in Capacities, f \in BOOLEAN, n \in 0..MaxInit :
        /\ maxlen = m
        /\ fifo = f
        /\ deque = DequeExtend(<<>>, Fresh(1, n), m)
        /\ pc = [t \in Tasks |-> "idle"]
        /\ frame = [t \in Tasks |-> NoFrame]
        /\ running = {}
        /\ nextItem = n + 1
        /\ inserted = DequeExtend(<<>>, Fresh(1, n), m)
        /\ removed = <<>>
        /\ interleaved = FALSE
        /\ last = [task |-> NumTasks + 1, op |-> "init", from |-> "call",
                    before |-> <<>>, fr |-> NoFrame, outcome |-> "returned",
                    ret |-> <<>>, nfull |-> 0, nempty |-> 0,
                    ins |-> Fresh(1, n), rem |-> <<>>]
        /\ listeners = [e \in Events |-> <<>>]
        /\ futures = <<>>
        /\ ready = <<>>

TaskNext(t) ==
    \/ Put(t)
    \/ PutResume(t)
    \/ PutCheck(t)
    \/ PutNowait(t)
    \/ Puts(t)
    \/ PutsAtomicResume(t)
    \/ PutsResume(t)
    \/ Get(t)
    \/ GetResume(t)
    \/ GetCheck(t)
    \/ GetNowait(t)
    \/ Gets(t)
    \/ GetsAtomicResume(t)
    \/ GetsResume(t)
    \/ GetsTopup(t)
    \/ Tick(t)

Next == DispatchEvent \/ \E t \in Tasks : TaskNext(t)

Spec == Init /\ [][Next]_vars

\* The single-item operations only: producers that put and put_nowait,
\* consumers that get and get_nowait.
SingleNext ==
    \E t \in Tasks :
        \/ Put(t)
        \/ PutResume(t)
        \/ PutCheck(t)
        \/ PutNowait(t)
        \/ Get(t)
        \/ GetResume(t)
        \/ GetCheck(t)
        \/ GetNowait(t)
        \/ Tick(t)

\* A suspended task is resumed: the event loop runs every ready task in turn.
Resume(t) == PutResume(t) \/ GetResume(t)

\* The task that holds the event loop keeps running, and time passes.
Poll == \E t \in Tasks : PutCheck(t) \/ GetCheck(t) \/ Tick(t)

\* AsyncQueue(iterable, maxlen=m) with m >= 0
InitBoundedFifo == Init /\ maxlen # None /\ fifo

Fairness ==
    /\ WF_vars(Poll)
    /\ SF_vars(DispatchEvent)
    /\ \A t \in Tasks : SF_vars(Resume(t))

\* Producers and consumers of single items on a bounded FIFO queue, under a
\* fair event loop: time passes, the running task runs on, the tasks created
\* by dispatch_event are run, and a task that is ready again and again is
\* resumed.
FairSpec == InitBoundedFifo /\ [][SingleNext \/ DispatchEvent]_vars /\ Fairness

\* Producers and consumers of single items, and tasks that wait for the
\* events of the queue.
EventNext ==
    \/ SingleNext
    \/ DispatchEvent
    \/ \E t \in Tasks : WaitFor(t) \/ WaitForDone(t) \/ WaitForTimeout(t)

EventSpec == Init /\ [][EventNext]_vars

\* ------------------------------------------------------------------ claims
Reverse(s) == [i \in 1..Len(s) |-> s[Len(s) + 1 - i]]

Bounded == maxlen # None

\* The latest step was a step of one of these operations
LastOp(ops) == last.op \in ops

PutFamily == {"put", "put_nowait", "puts"}

GetFamily == {"get", "get_nowait", "gets"}

\* atmost as gets resolves it (line 157-158)
LastAtMost == IF last.fr.atmost = None THEN last.fr.atleast ELSE last.fr.atmost

\* The latest step belongs to a gets call that went past the argument checks
\* and the atleast = 1 shortcut, in the given mode
LastBulkGets(atomic) ==
    /\ last.op = "gets"
    /\ last.fr.atomic = atomic
    /\ last.fr.atleast >= 2
    /\ last.fr.atleast <= LastAtMost

\* C1: on a bounded queue 0 <= len(buffer) <= capacity in every reachable
\* state, and no step of any operation (a pass of a bulk operation included)
\* appends more than fits: the length after a step is the length before it
\* plus what the step appended minus what it popped, so the bounded deque
\* never had to drop an item to stay within capacity.
C1_Capacity ==
    /\ LastOp(PutFamily \cup GetFamily) =>
          Len(last.before) + Len(last.ins) - Len(last.rem) = Len(deque)
    /\ Bounded => (0 <= Len(deque) /\ Len(deque) <= maxlen)

\* C1 witness: a pass of an incremental puts that had more items than free
\* slots filled a bounded queue and suspended with the rest.
C1_Witness ==
    /\ Bounded /\ maxlen > 0
    /\ last.op = "puts" /\ ~last.fr.atomic /\ last.outcome = "suspended"
    /\ Len(last.ins) > 0
    /\ Len(deque) = maxlen

\* C2: as long as no put followed a removal (puts, then gets), the k-th
\* removal takes the k-th inserted item on a FIFO queue and the k-th item
\* from the end on a LIFO queue, and a get returns exactly the item it took.
C2_Order ==
    /\ ~interleaved =>
          IF fifo THEN inserted = removed \o deque
                  ELSE inserted = deque \o Reverse(removed)
    /\ (~interleaved /\ last.op = "get" /\ last.outcome = "returned") =>
          /\ Len(last.ret) = 1
          /\ last.ret[1] = IF fifo THEN inserted[Len(removed)]
                                   ELSE inserted[Len(inserted) + 1 - Len(removed)]

\* C2 witness: three items were put, then a second get returned on a LIFO queue.
C2_Witness ==
    /\ ~fifo /\ ~interleaved
    /\ Len(inserted) = 3 /\ Len(removed) = 2
    /\ last.op = "get" /\ last.outcome = "returned"
    /\ removed = <<inserted[3], inserted[2]>>

\* C3: on a bounded FIFO queue a put without timeout that finds the queue
\* full suspends and appends nothing (its item is not in the buffer while it
\* waits); a put that finds room, at the call or when resumed, appends its
\* item at the tail in that very step; and a waiting put that is ready while
\* there is room eventually completes, unless the queue is full again.
C3_Safety ==
    /\ \A t \in Tasks :
          pc[t] = "put_sleep" =>
              /\ frame[t].items[1] \notin Range(deque)
              /\ frame[t].items[1] \notin Range(inserted)
    /\ (last.op = "put" /\ last.fr.timeout = None /\ Bounded) =>
          IF Len(last.before) >= maxlen
          THEN last.outcome = "suspended" /\ deque = last.before
          ELSE last.outcome = "returned" /\ deque = last.before \o last.fr.items

C3_BlockedPut ==
    /\ []C3_Safety
    /\ \A t \in Tasks :
          (pc[t] = "put_sleep" /\ Len(deque) < maxlen)
              ~> (pc[t] # "put_sleep" \/ Len(deque) >= maxlen)

\* C3 witness, the example: capacity 2, empty at the start; put(1) and put(2)
\* went in, put(3) was suspended, a get took 1, and put(3) has just completed
\* from its suspension, leaving [2, 3].
C3_Witness ==
    /\ maxlen = 2 /\ fifo
    /\ inserted = <<1, 2, 3>> /\ removed = <<1>>
    /\ last.op = "put" /\ last.from = "put_sleep" /\ last.outcome = "returned"
    /\ last.fr.items = <<3>>
    /\ deque = <<2, 3>>

\* C4: a put or get with a timeout that ends in TimeoutError appended and
\* popped nothing and dispatched no event: the buffer is what it was when the
\* call began (and stays so all the while the call polls); the item of the put
\* is in the buffer neither then nor in the history of insertions.  Once the
\* deadline has passed and the queue is still full (resp. empty) the call
\* raises TimeoutError.
C4_Timeout ==
    /\ last.outcome = "TimeoutError" =>
          /\ last.op \in {"put", "get"} /\ last.fr.timeout # None
          /\ deque = last.fr.entry /\ deque = last.before
          /\ last.nfull = 0 /\ last.nempty = 0
          /\ last.ins = <<>> /\ last.rem = <<>>
          /\ last.op = "put" =>
                /\ last.fr.items[1] \notin Range(deque)
                /\ last.fr.items[1] \notin Range(inserted)
    /\ \A t \in Tasks :
          pc[t] \in {"put_check", "get_check"} => deque = frame[t].entry
    /\ (last.op = "put" /\ last.fr.timeout # None /\ Bounded
            /\ Len(last.before) >= maxlen /\ last.fr.elapsed > last.fr.timeout)
          => last.outcome = "TimeoutError"
    /\ (last.op = "get" /\ last.fr.timeout # None
            /\ Len(last.before) = 0 /\ last.fr.elapsed > last.fr.timeout)
          => last.outcome = "TimeoutError"

\* C4 witness: a put with a timeout on a full queue of capacity >= 1 has
\* just raised TimeoutError.
C4_Witness ==
    /\ last.op = "put" /\ last.outcome = "TimeoutError"
    /\ Bounded /\ maxlen >= 1 /\ Len(deque) = maxlen

\* C5: put_nowait on a queue at capacity raises Full and get_nowait on an
\* empty queue raises Empty; either way the buffer is unchanged and no event
\* is dispatched; and neither operation ever suspends.
C5_Nowait ==
    /\ (last.op = "put_nowait" /\ Bounded /\ Len(last.before) >= maxlen) =>
          /\ last.outcome = "Full"
          /\ deque = last.before /\ last.ins = <<>>
          /\ last.nfull = 0 /\ last.nempty = 0
    /\ (last.op = "get_nowait" /\ Len(last.before) = 0) =>
          /\ last.outcome = "Empty"
          /\ deque = last.before /\ last.rem = <<>>
          /\ last.nfull = 0 /\ last.nempty = 0
    /\ last.op \in {"put_nowait", "get_nowait"} =>
          /\ last.outcome \in {"returned", "Full", "Empty"}
          /\ pc[last.task] = "idle"

\* C5 witness: put_nowait has just raised Full on a queue of capacity >= 1.
C5_Witness ==
    /\ last.op = "put_nowait" /\ last.outcome = "Full"
    /\ Bounded /\ maxlen >= 1 /\ Len(deque) = maxlen

\* C6: a gets call with atleast < 1, or with atleast > atmost, raises
\* ValueError in the step of the call, before any suspension: it pops nothing,
\* dispatches nothing and leaves the caller idle, whatever the buffer holds
\* and whatever the atomic flag.
C6_BadArgs ==
    (/\ last.op = "gets" /\ last.from = "call"
     /\ \/ last.fr.atleast < 1
        \/ (last.fr.atmost # None /\ last.fr.atleast > last.fr.atmost))
    => /\ last.outcome = "ValueError"
       /\ deque = last.before /\ last.rem = <<>> /\ last.ret = <<>>
       /\ last.nfull = 0 /\ last.nempty = 0
       /\ pc[last.task] = "idle"

\* C6 witness: gets(atleast=0, atomic=True) has just failed on an empty queue
\* (where going on would have dispatched Empty).
C6_Witness ==
    /\ last.op = "gets" /\ last.outcome = "ValueError"
    /\ last.fr.atleast = 0 /\ last.fr.atomic
    /\ deque = <<>>

\* C7, as claimed: a step of put, put_nowait or puts dispatches Full exactly
\* once if it takes the buffer from below capacity to capacity, and not at
\* all otherwise.
C7_FullOnce ==
    LastOp(PutFamily) =>
        last.nfull = IF Bounded /\ Len(last.before) < maxlen /\ Len(deque) = maxlen
                     THEN 1 ELSE 0

\* C8, as claimed: a step of get, get_nowait or gets dispatches Empty exactly
\* once if it takes the buffer from a positive length to 0, and not at all
\* otherwise (so never in a pass that popped nothing).
C8_EmptyOnce ==
    LastOp(GetFamily) =>
        last.nempty = IF Len(last.before) > 0 /\ Len(deque) = 0 THEN 1 ELSE 0

\* C9: an atomic gets with 2 <= atleast <= atmost pops nothing and suspends
\* whenever it runs with fewer than atleast items in the buffer; the first
\* time it runs with at least atleast items it pops min(atmost, len(buffer))
\* items in that one step and returns them: they are the items at the removal
\* end of the buffer, in removal order, and the rest of the buffer is
\* untouched.  No task is ever seen holding part of an atomic batch.
C9_AtomicGets ==
    /\ LastBulkGets(TRUE) =>
          IF Len(last.before) < last.fr.atleast
          THEN /\ last.outcome = "suspended"
               /\ deque = last.before /\ last.rem = <<>>
               /\ pc[last.task] = "gets_atomic_sleep"
          ELSE LET n == Len(last.before)
                   k == Min(LastAtMost, n)
               IN  /\ last.outcome = "returned"
                   /\ pc[last.task] = "idle"
                   /\ Len(last.ret) = k
                   /\ last.rem = last.ret
                   /\ IF fifo
                      THEN /\ last.ret = SubSeq(last.before, 1, k)
                           /\ deque = SubSeq(last.before, k + 1, n)
                      ELSE /\ last.ret = Reverse(SubSeq(last.before, n - k + 1, n))
                           /\ deque = SubSeq(last.before, 1, n - k)
    /\ \A t \in Tasks :
          (frame[t].op = "gets" /\ frame[t].atomic) => frame[t].out = <<>>

\* C9 witness: gets(2, 3, atomic=True) was suspended, the buffer grew to 3
\* items, and the call has just returned all three.
C9_Witness ==
    /\ LastBulkGets(TRUE)
    /\ last.from = "gets_atomic_sleep" /\ last.outcome = "returned"
    /\ last.fr.atleast = 2 /\ LastAtMost = 3
    /\ Len(last.before) = 3 /\ Len(last.ret) = 3

\* C10: an incremental gets with 2 <= atleast <= atmost returns only from its
\* top-up pass, which it reaches with atleast items collected; the top-up
\* takes what the buffer holds at that moment, up to atmost in all, without
\* suspending; so it returns at least atleast and at most atmost items.  On a
\* FIFO queue, if no other consumer popped an item during the call, the
\* result is the run of the insertion sequence that starts where the earlier
\* removals ended.
C10_IncrementalGets ==
    /\ LastBulkGets(FALSE) =>
          /\ last.outcome \in {"returned", "suspended"}
          /\ last.outcome = "returned" <=> last.from = "gets_topup"
          /\ last.outcome = "returned" =>
                /\ Len(last.fr.out) = last.fr.atleast
                /\ last.ret = last.fr.out \o last.rem
                /\ Len(last.ret) >= last.fr.atleast
                /\ Len(last.ret) <= LastAtMost
                /\ Len(last.ret) = Min(LastAtMost, Len(last.fr.out) + Len(last.before))
                /\ (fifo /\ Len(removed) = last.fr.base + Len(last.ret)) =>
                      last.ret = SubSeq(inserted, last.fr.base + 1,
                                        last.fr.base + Len(last.ret))
    /\ \A t \in Tasks :
          (frame[t].op = "gets" /\ ~frame[t].atomic /\ frame[t].atleast >= 2) =>
              /\ pc[t] \in {"gets_sleep", "gets_topup"}
              /\ Len(frame[t].out) <= frame[t].atleast
              /\ pc[t] = "gets_topup" => Len(frame[t].out) = frame[t].atleast

\* C10 witness: gets(2, 3) on a FIFO queue collected 1 and 2 in its passes
\* and has just topped up with 3 and returned [1, 2, 3].
C10_Witness ==
    /\ fifo /\ LastBulkGets(FALSE)
    /\ last.outcome = "returned"
    /\ last.fr.atleast = 2 /\ LastAtMost = 3
    /\ last.fr.out = <<1, 2>> /\ last.rem = <<3>>
    /\ last.ret = <<1, 2, 3>>

\* The futures listed for event, in the order wait_for appended them
Registered(event) == Range(listeners[event])

\* C11, as claimed: a wait_for that ends by timeout raises TimeoutError, and
\* from then on its future (cancelled by the timeout) is in the listeners of
\* no event, so that no later _dispatch_event comes upon it.
C11_TimeoutRemovesWaiter ==
    /\ (last.op = "wait_for" /\ last.from = "wait_for"
            /\ futures[last.fr.future] = "cancelled")
          => last.outcome = "TimeoutError"
    /\ \A f \in DOMAIN futures :
          futures[f] = "cancelled" => \A event \in Events : f \notin Registered(event)

\* C12, as claimed: a run of _dispatch_event(event) ends normally, leaves the
\* listeners of the event empty, and every future it found listed has its
\* result (none is left pending); a future gets its result once only, so a
\* future that had it before the run is no longer listed.
C12_DispatchCompletesAll ==
    /\ last.op = "_dispatch_event" =>
          /\ last.outcome = "returned"
          /\ listeners[last.fr.event] = <<>>
          /\ \A i \in DOMAIN last.fr.heard :
                futures[last.fr.heard[i]] \in {"done", "cancelled"}
    /\ \A event \in Events : \A f \in Registered(event) : futures[f] # "done"

\* C13, as claimed: gets(atleast, atmost, atomic=True) on a bounded queue with
\* atleast above the capacity raises ValueError in the step of the call: it
\* does not suspend.
C13_AtomicGetsFailsFast ==
    (/\ last.op = "gets" /\ last.from = "call" /\ last.fr.atomic
     /\ Bounded /\ last.fr.atleast > maxlen)
    => /\ last.outcome = "ValueError"
       /\ pc[last.task] = "idle"

\* C14, as claimed: while a put or a get with a timeout goes round its wait
\* loop the event loop has the control: every other task can be run, be it
\* to make a call or to go on from the await where it is suspended.
C14_TimedWaitYields ==
    \A t \in Tasks :
        pc[t] \in {"put_check", "get_check"} =>
            \A u \in Tasks \ {t} :
                IF pc[u] = "idle" THEN CanCall(u) ELSE CanResume(u, pc[u])

\* C15, as claimed: a step of puts (the call or a later pass, atomic or not)
\* that takes the buffer of a bounded queue from below capacity to capacity
\* dispatches Full.
C15_PutsFullEveryFill ==
    (/\ last.op = "puts" /\ Bounded
     /\ Len(last.before) < maxlen /\ Len(deque) = maxlen)
    => last.nfull >= 1

\* C16, as claimed: a valid atomic gets (1 <= atleast <= atmost, atleast = 1
\* with atmost > 1 included) that runs with m >= atleast items in the buffer
\* returns in that step, with min(atmost, m) items.
C16_GetsBatch ==
    (/\ last.op = "gets" /\ last.fr.atomic
     /\ last.fr.atleast >= 1 /\ last.fr.atleast <= LastAtMost
     /\ Len(last.before) >= last.fr.atleast)
    => /\ last.outcome = "returned"
       /\ Len(last.ret) = Min(LastAtMost, Len(last.before))

\* The last n items of a sequence
Last(s, n) == SubSeq(s, Len(s) - n + 1, Len(s))

\* C17: an atomic puts on a bounded queue that runs with fewer free slots
\* than it has items appends nothing and suspends with all its items; the
\* first time it runs with room for all of them it appends them all in that
\* one step, in their order, at the tail of the buffer (so they lie side by
\* side, in the buffer and in the history of insertions) and returns.  No
\* item of an atomic puts that waits is, or has ever been, in the buffer.
C17_AtomicPuts ==
    /\ (last.op = "puts" /\ last.fr.atomic /\ Bounded) =>
          IF maxlen - Len(last.before) < Len(last.fr.items)
          THEN /\ last.outcome = "suspended"
               /\ deque = last.before /\ last.ins = <<>>
               /\ pc[last.task] = "puts_atomic_sleep"
               /\ frame[last.task].items = last.fr.items
          ELSE /\ last.outcome = "returned"
               /\ pc[last.task] = "idle"
               /\ deque = last.before \o last.fr.items
               /\ last.ins = last.fr.items
               /\ Last(inserted, Len(last.fr.items)) = last.fr.items
    /\ \A t \in Tasks :
          pc[t] = "puts_atomic_sleep" =>
              /\ Range(frame[t].items) \cap Range(inserted) = {}
              /\ Range(frame[t].items) \cap Range(deque) = {}

\* C17 witness: an atomic puts of two items waited on a queue of capacity 2
\* that held one item, a consumer took that item, and the call has just
\* appended both its items.
C17_Witness ==
    /\ last.op = "puts" /\ last.fr.atomic /\ maxlen = 2
    /\ last.from = "puts_atomic_sleep" /\ last.outcome = "returned"
    /\ last.fr.items = <<2, 3>> /\ deque = <<2, 3>>
    /\ removed = <<1>>

\* C18, as claimed: in the state where a get or get_nowait that took the last
\* item has returned to its caller, the Empty dispatch has had its effect:
\* no future is listed for Empty (and those that were have their result).
C18_EmptyDispatchedBeforeReturn ==
    (/\ last.op \in {"get", "get_nowait"}
     /\ last.outcome = "returned" /\ last.nempty = 1)
    => listeners["Empty"] = <<>>

\* No two places of a sequence hold the same item
NoDuplicate(s) == \A i, j \in DOMAIN s : s[i] = s[j] => i = j

\* The items that gets calls in progress have popped and not yet returned
Held(t) == IF frame[t].op = "gets" THEN frame[t].out ELSE <<>>

\* The items of the calls that wait or poll with items still to append
Waiting(t) ==
    IF frame[t].op \in PutFamily THEN Range(frame[t].items) ELSE {}

\* C19: the items inserted are, in every reachable state, those in the
\* buffer together with those removed, each of them once (none is dropped by
\* the bounded deque, none is popped twice); a removed item is held by the
\* one gets call in progress that popped it or was returned, and a call
\* returns exactly the items it popped, once; every step changes the buffer
\* by what it appended and popped; and the item of a put that raised
\* TimeoutError or of a put_nowait that raised Full, like the items a put or
\* puts still waits to append, is not in the buffer and never was.
C19_Conservation ==
    /\ NoDuplicate(deque \o removed)
    /\ Range(inserted) = Range(deque) \cup Range(removed)
    /\ Len(inserted) = Len(deque) + Len(removed)
    /\ \A t \in Tasks :
          /\ Range(Held(t)) \subseteq Range(removed)
          /\ \A u \in Tasks \ {t} : Range(Held(t)) \cap Range(Held(u)) = {}
          /\ Waiting(t) \cap Range(inserted) = {}
    /\ LastOp(PutFamily \cup GetFamily) =>
          /\ Len(deque) = Len(last.before) + Len(last.ins) - Len(last.rem)
          /\ Range(deque) = (Range(last.before) \cup Range(last.ins)) \ Range(last.rem)
          /\ last.outcome = "returned" => last.ret = last.fr.out \o last.rem
          /\ last.outcome # "returned" => last.ret = <<>>
          /\ Range(last.ret) \cap Range(deque) = {}
    /\ (LastOp({"put", "put_nowait"}) /\ last.outcome \in {"TimeoutError", "Full"}) =>
          /\ last.fr.items[1] \notin Range(inserted)
          /\ last.ins = <<>> /\ deque = last.before

\* C19 witness: on a queue of capacity 1 the three items went in and out,
\* the second and third through an incremental puts that had to wait.
C19_Witness ==
    /\ maxlen = 1
    /\ inserted = <<1, 2, 3>> /\ Len(removed) = 3 /\ deque = <<>>
    /\ \E i \in DOMAIN removed : removed[i] = 3
    /\ last.op \in GetFamily /\ last.outcome = "returned"

\* C20, as claimed: a run of _dispatch_event gives a result only to futures
\* that wait_for had created before the dispatch_event call (the step that
\* made the queue full or empty) which created that run: a future created
\* after that step stays pending.
C20_NoEarlierTransition ==
    last.op = "_dispatch_event" =>
        \A i \in DOMAIN last.fr.heard :
            last.fr.heard[i] > last.fr.born => futures[last.fr.heard[i]] # "done"

====
